---- MODULE Spec2Model ----
(***************************************************************************)
(* Model of fluentlogger.go: the constructor New and the two fiber         *)
(* middlewares Logger.Logger and Logger.PanicLogger, composed into a       *)
(* handler chain in front of an application handler and driven by          *)
(* concurrent requests.  The fiber framework (c.Next, the per-request      *)
(* Ctx) and the fluent client (fluent.New, Post) are external: their       *)
(* results are nondeterministic inputs of the actions that call them.      *)
(***************************************************************************)
EXTENDS Naturals, Sequences, FiniteSets, TLC

\* Number of requests the server handles (they may all be in flight at once).
MaxRequests == 2
\* Number of ticks the monotonic clock may advance.
MaxClock == 2

\* fiber.StatusInternalServerError
StatusInternalServerError == 500

VARIABLES
    newRes,   \* the last call of New: its config, the (*Logger, error) it returned
    chain,    \* the middlewares mounted in front of the application handler
    nreq,     \* number of requests accepted so far
    pc,       \* per request: idle, call (going down), ret (unwinding), done, panicked
    level,    \* per request: index of the running handler (Len(chain)+1 = application)
    ret,      \* per request: the error value returned by the frame that just returned
    start,    \* per request: Logger's local `start`
    ctx,      \* per request: the fiber.Ctx (request attributes and response)
    app,      \* per request: what the application handler returned and left in the response
    hist,     \* per request: the observable events, in order
    now       \* the monotonic clock, in nanoseconds

vars == <<newRes, chain, nreq, pc, level, ret, start, ctx, app, hist, now>>

Rids == 1..MaxRequests

----------------------------------------------------------------------------
\* Go error values.  A tracerr-wrapped error carries frames, a plain one none.

NilErr == [nil |-> TRUE, msg |-> "", frames |-> <<>>]

MkErr(msg, frames) == [nil |-> FALSE, msg |-> msg, frames |-> frames]

\* tracerr.SprintSource: the message, followed by the frames of a traced error.
SprintSource(err) == <<err.msg>> \o err.frames

\* time.Duration.Milliseconds: nanoseconds to whole milliseconds.
Milliseconds(d) == d \div 1000000

----------------------------------------------------------------------------
\* LoggerConfig and Logger

Tags == {"app", "web"}

Configs == [Enabled : BOOLEAN, Host : {"127.0.0.1"}, Port : {24224}, Tag : Tags]

NoConfig == [Enabled |-> FALSE, Host |-> "", Port |-> 0, Tag |-> ""]

NilLogger == [nil |-> TRUE, client |-> "nil", tag |-> ""]

MkLogger(client, tag) == [nil |-> FALSE, client |-> client, tag |-> tag]

\* Mutant of NewResult: the Enabled check is missing.
NewSkipsEnabledCheck(config, dialOk) ==
    IF ~dialOk
    THEN [logger |-> NilLogger, err |-> MkErr("dial tcp: connection refused", <<>>),
          dialed |-> TRUE]
    ELSE [logger |-> MkLogger("fluent", config.Tag), err |-> NilErr, dialed |-> TRUE]

\* New, as a function of the config and of what fluent.New would answer.
\* dialed records whether fluent.New was called at all.
NewResult(config, dialOk) ==
    IF ~config.Enabled
    THEN [logger |-> NilLogger, err |-> MkErr("middleware disabled", <<>>),
          dialed |-> FALSE]
    ELSE IF ~dialOk
    THEN [logger |-> NilLogger, err |-> MkErr("dial tcp: connection refused", <<>>),
          dialed |-> TRUE]
    ELSE [logger |-> MkLogger("fluent", config.Tag), err |-> NilErr, dialed |-> TRUE]

\* The receiver l of the mounted handlers.
l == newRes.logger

----------------------------------------------------------------------------
\* Requests, contexts and the application handler's outcomes

ReqInputs ==
    { [method |-> "GET", path |-> "/health", ip |-> "10.0.0.5",
       headers |-> {<<"User-Agent", "curl">>}],
      [method |-> "POST", path |-> "/orders", ip |-> "10.0.0.6",
       headers |-> {}] }

IdleCtx == [method |-> "", path |-> "", ip |-> "", headers |-> {},
            status |-> 200, body |-> <<>>]

\* A fresh Ctx: fiber's default response is 200 with an empty body.
NewCtx(in) == [method |-> in.method, path |-> in.path, ip |-> in.ip,
               headers |-> in.headers, status |-> 200, body |-> <<>>]

\* c.Get(key): the header's value, "" when the header is absent.
Get(c, key) ==
    IF \E h \in c.headers : h[1] = key
    THEN (CHOOSE h \in c.headers : h[1] = key)[2]
    ELSE ""

HandlerErrs == { NilErr,
                 MkErr("db timeout", <<>>),
                 MkErr("db timeout", <<"orders.go:42">>) }

HandlerOutcomes == [status : {200, 500, 503}, body : {<<>>, <<111, 107>>},
                    err : HandlerErrs]

\* The outcomes drawn when several requests run at once.
ConcOutcomes ==
    { [status |-> 200, body |-> <<111, 107>>, err |-> NilErr],
      [status |-> 500, body |-> <<>>, err |-> MkErr("db timeout", <<>>)] }

Chains == { <<"Logger">>, <<"PanicLogger">>,
            <<"Logger", "PanicLogger">>, <<"PanicLogger", "Logger">> }

In(ch, name) == \E i \in 1..Len(ch) : ch[i] = name

\* debug.Stack(): the frames of the calling goroutine, innermost first.
Stack(ch, lvl) == <<"runtime/debug.Stack">> \o [i \in 1..lvl |-> ch[lvl + 1 - i]]

----------------------------------------------------------------------------
\* Events

NoData == <<>>

Event(kind, who, tag, data, ok, err) ==
    [kind |-> kind, who |-> who, tag |-> tag, data |-> data, ok |-> ok, err |-> err]

\* l.client.Post: the error it returns.
PostErr(ok) == IF ok THEN NilErr ELSE MkErr("fluent#send: write failed", <<>>)

----------------------------------------------------------------------------
\* Logger.Logger, after c.Next() returned

\* Mutant of LoggerData: the error attribute is never added.
LoggerDataNoError(c, err, latency) ==
    [method        |-> c.method,
     path          |-> c.path,
     status        |-> c.status,
     latency_ms    |-> Milliseconds(latency),
     client_ip     |-> c.ip,
     user_agent    |-> Get(c, "User-Agent"),
     response_size |-> Len(c.body)]

\* Mutant of LoggerData: the record is built from a Ctx shared by all requests
\* (the first request's) instead of the handler's own argument.
LoggerDataShared(c, err, latency) ==
    LET logData == [method        |-> ctx[1].method,
                    path          |-> ctx[1].path,
                    status        |-> ctx[1].status,
                    latency_ms    |-> Milliseconds(latency),
                    client_ip     |-> ctx[1].ip,
                    user_agent    |-> Get(ctx[1], "User-Agent"),
                    response_size |-> Len(ctx[1].body)]
    IN  IF ~err.nil THEN logData @@ ("error" :> SprintSource(err)) ELSE logData

LoggerData(c, err, latency) ==
    LET logData == [method        |-> c.method,
                    path          |-> c.path,
                    status        |-> c.status,
                    latency_ms    |-> Milliseconds(latency),
                    client_ip     |-> c.ip,
                    user_agent    |-> Get(c, "User-Agent"),
                    response_size |-> Len(c.body)]
    IN  IF ~err.nil THEN logData @@ ("error" :> SprintSource(err)) ELSE logData

\* Mutant of LoggerRet: Post's error is assigned to the outer err (= for :=).
LoggerRetAssigned(err, postErr) == postErr

\* The value the handler returns: the inner `err` of the if statement shadows
\* the outer one, so the outer one is returned.
LoggerRet(err, postErr) == err

\* Mutant of LoggerEvents: nothing is sent when the wrapped handler failed.
LoggerEventsOnSuccessOnly(tag, c, err, latency, ok) ==
    IF ~err.nil
    THEN <<Event("return", "Logger", "", NoData, TRUE, err)>>
    ELSE <<Event("post", "Logger", tag, LoggerData(c, err, latency), ok, PostErr(ok))>>
         \o (IF ~PostErr(ok).nil
             THEN <<Event("print", "Logger", "", NoData, TRUE, PostErr(ok))>>
             ELSE <<>>)
         \o <<Event("return", "Logger", "", NoData, TRUE, LoggerRet(err, PostErr(ok)))>>

\* Post, the local print of its error, and return err.
LoggerEvents(tag, c, err, latency, ok) ==
    <<Event("post", "Logger", tag, LoggerData(c, err, latency), ok, PostErr(ok))>>
    \o (IF ~PostErr(ok).nil
        THEN <<Event("print", "Logger", "", NoData, TRUE, PostErr(ok))>>
        ELSE <<>>)
    \o <<Event("return", "Logger", "", NoData, TRUE, LoggerRet(err, PostErr(ok)))>>

----------------------------------------------------------------------------
\* Logger.PanicLogger, after c.Next() returned

\* Mutant of IsPanicStatus: any 5xx status counts.
IsPanicStatusAny5xx(c) == c.status >= StatusInternalServerError

\* The test of the status against fiber.StatusInternalServerError.
IsPanicStatus(c) == c.status = StatusInternalServerError

\* Mutant of PanicData: the stack trace is attached unconditionally.
PanicDataAlwaysStack(c, err, stack) ==
    LET logData == [method     |-> c.method,
                    path       |-> c.path,
                    client_ip  |-> c.ip,
                    user_agent |-> Get(c, "User-Agent")]
        withErr == IF ~err.nil THEN logData @@ ("error" :> SprintSource(err))
                   ELSE logData
    IN  withErr @@ ("stacktrace" :> stack)

\* logData of PanicLogger: error and stacktrace are added under the same test.
PanicData(c, err, stack) ==
    LET logData == [method     |-> c.method,
                    path       |-> c.path,
                    client_ip  |-> c.ip,
                    user_agent |-> Get(c, "User-Agent")]
        withErr == IF ~err.nil THEN logData @@ ("error" :> SprintSource(err))
                   ELSE logData
    IN  IF ~err.nil THEN withErr @@ ("stacktrace" :> stack) ELSE withErr

\* Mutant of PanicLoggerRet: the handler ends with return nil.
PanicLoggerRetNil(err, postErr) == NilErr

\* return err: as in Logger, Post's error lives in the if statement only.
PanicLoggerRet(err, postErr) == err

PanicLoggerEvents(tag, c, err, stack, ok) ==
    (IF IsPanicStatus(c)
     THEN <<Event("post", "PanicLogger", tag \o ".panic", PanicData(c, err, stack),
                  ok, PostErr(ok))>>
          \o (IF ~PostErr(ok).nil
              THEN <<Event("print", "PanicLogger", "", NoData, TRUE, PostErr(ok))>>
              ELSE <<>>)
     ELSE <<>>)
    \o <<Event("return", "PanicLogger", "", NoData, TRUE,
               PanicLoggerRet(err, IF IsPanicStatus(c) THEN PostErr(ok) ELSE NilErr))>>

----------------------------------------------------------------------------
\* Actions

Init ==
    /\ newRes = [called |-> FALSE, config |-> NoConfig, logger |-> NilLogger,
                 err |-> NilErr, dialed |-> FALSE]
    /\ chain = <<>>
    /\ nreq = 0
    /\ pc = [r \in Rids |-> "idle"]
    /\ level = [r \in Rids |-> 0]
    /\ ret = [r \in Rids |-> NilErr]
    /\ start = [r \in Rids |-> 0]
    /\ ctx = [r \in Rids |-> IdleCtx]
    /\ app = [r \in Rids |-> [err |-> NilErr, status |-> 200, body |-> <<>>]]
    /\ hist = [r \in Rids |-> <<>>]
    /\ now = 0

\* New(config): callable until a logger has been obtained.
New(config, dialOk) ==
    /\ l.nil
    /\ newRes' = [called |-> TRUE, config |-> config] @@ NewResult(config, dialOk)
    /\ UNCHANGED <<chain, nreq, pc, level, ret, start, ctx, app, hist, now>>

\* l.Logger() / l.PanicLogger(): the handlers are built from the logger and
\* registered in front of the application handler.
Mount(ch) ==
    /\ ~l.nil
    /\ chain = <<>>
    /\ chain' = ch
    /\ UNCHANGED <<newRes, nreq, pc, level, ret, start, ctx, app, hist, now>>

\* The framework calls the outermost handler with a fresh Ctx.
Accept(r, in) ==
    /\ chain # <<>>
    /\ r = nreq + 1
    /\ nreq' = r
    /\ pc' = [pc EXCEPT ![r] = "call"]
    /\ level' = [level EXCEPT ![r] = 1]
    /\ ctx' = [ctx EXCEPT ![r] = NewCtx(in)]
    /\ UNCHANGED <<newRes, chain, ret, start, app, hist, now>>

\* Mutant of LoggerNext: the record is sent before c.Next() is called.
LoggerNextPostFirst(r) ==
    /\ pc[r] = "call"
    /\ level[r] <= Len(chain)
    /\ chain[level[r]] = "Logger"
    /\ start' = [start EXCEPT ![r] = now]
    /\ level' = [level EXCEPT ![r] = @ + 1]
    /\ hist' = [hist EXCEPT ![r] = Append(@, Event("post", "Logger", l.tag,
                                                    LoggerData(ctx[r], NilErr, 0),
                                                    TRUE, NilErr))]
    /\ UNCHANGED <<newRes, chain, nreq, pc, ret, ctx, app, now>>

\* Logger: start := time.Now(); err := c.Next()
LoggerNext(r) ==
    /\ pc[r] = "call"
    /\ level[r] <= Len(chain)
    /\ chain[level[r]] = "Logger"
    /\ start' = [start EXCEPT ![r] = now]
    /\ level' = [level EXCEPT ![r] = @ + 1]
    /\ UNCHANGED <<newRes, chain, nreq, pc, ret, ctx, app, hist, now>>

\* PanicLogger: err := c.Next()
PanicLoggerNext(r) ==
    /\ pc[r] = "call"
    /\ level[r] <= Len(chain)
    /\ chain[level[r]] = "PanicLogger"
    /\ level' = [level EXCEPT ![r] = @ + 1]
    /\ UNCHANGED <<newRes, chain, nreq, pc, ret, start, ctx, app, hist, now>>

\* The application handler runs, writes the response and returns.
AppReturn(r, out) ==
    /\ pc[r] = "call"
    /\ level[r] = Len(chain) + 1
    /\ ctx' = [ctx EXCEPT ![r].status = out.status, ![r].body = out.body]
    /\ app' = [app EXCEPT ![r] = out]
    /\ ret' = [ret EXCEPT ![r] = out.err]
    /\ pc' = [pc EXCEPT ![r] = "ret"]
    /\ level' = [level EXCEPT ![r] = @ - 1]
    /\ hist' = [hist EXCEPT ![r] = Append(@, Event("app_return", "app", "", NoData,
                                                    TRUE, out.err))]
    /\ UNCHANGED <<newRes, chain, nreq, start, now>>

\* The application handler panics: neither middleware defers or recovers, so
\* c.Next() does not return in any of them and every frame is unwound.
AppPanic(r) ==
    /\ pc[r] = "call"
    /\ level[r] = Len(chain) + 1
    /\ pc' = [pc EXCEPT ![r] = "panicked"]
    /\ level' = [level EXCEPT ![r] = 0]
    /\ hist' = [hist EXCEPT ![r] = Append(@, Event("app_panic", "app", "", NoData,
                                                    TRUE, NilErr))]
    /\ UNCHANGED <<newRes, chain, nreq, ret, start, ctx, app, now>>

Unwind(r, events) ==
    /\ hist' = [hist EXCEPT ![r] = @ \o events]
    /\ ret' = [ret EXCEPT ![r] = events[Len(events)].err]
    /\ level' = [level EXCEPT ![r] = @ - 1]
    /\ pc' = [pc EXCEPT ![r] = IF level[r] = 1 THEN "done" ELSE "ret"]

\* Logger, from latency := time.Since(start) to return err.
LoggerDone(r, ok) ==
    /\ pc[r] = "ret"
    /\ level[r] >= 1
    /\ chain[level[r]] = "Logger"
    /\ Unwind(r, LoggerEvents(l.tag, ctx[r], ret[r], now - start[r], ok))
    /\ UNCHANGED <<newRes, chain, nreq, start, ctx, app, now>>

\* PanicLogger, from the status check to return err.
PanicLoggerDone(r, ok) ==
    /\ pc[r] = "ret"
    /\ level[r] >= 1
    /\ chain[level[r]] = "PanicLogger"
    /\ Unwind(r, PanicLoggerEvents(l.tag, ctx[r], ret[r], Stack(chain, level[r]), ok))
    /\ UNCHANGED <<newRes, chain, nreq, start, ctx, app, now>>

\* The monotonic clock advances.
Tick ==
    /\ now < MaxClock * 600000
    /\ now' = now + 600000
    /\ UNCHANGED <<newRes, chain, nreq, pc, level, ret, start, ctx, app, hist>>

\* One request served through the mounted chain, with every input.
Next ==
    \/ \E config \in Configs, dialOk \in BOOLEAN : New(config, dialOk)
    \/ \E ch \in Chains : Mount(ch)
    \/ \E in \in ReqInputs : Accept(1, in)
    \/ \E r \in Rids : LoggerNext(r)
    \/ \E r \in Rids : PanicLoggerNext(r)
    \/ \E r \in Rids, out \in HandlerOutcomes : AppReturn(r, out)
    \/ \E r \in Rids : AppPanic(r)
    \/ \E r \in Rids, ok \in BOOLEAN : LoggerDone(r, ok)
    \/ \E r \in Rids, ok \in BOOLEAN : PanicLoggerDone(r, ok)
    \/ Tick

Spec == Init /\ [][Next]_vars

\* MaxRequests requests in flight at once, each on its own goroutine, all
\* through handlers built from the one Logger.  The clock stands still here:
\* every latency is 0, and the interleavings of the requests are all that vary.
NextConc ==
    \/ \E config \in Configs, dialOk \in BOOLEAN : New(config, dialOk)
    \/ \E ch \in Chains : Mount(ch)
    \/ \E r \in Rids, in \in ReqInputs : Accept(r, in)
    \/ \E r \in Rids : LoggerNext(r)
    \/ \E r \in Rids : PanicLoggerNext(r)
    \/ \E r \in Rids, out \in ConcOutcomes : AppReturn(r, out)
    \/ \E r \in Rids : AppPanic(r)
    \/ \E r \in Rids, ok \in BOOLEAN : LoggerDone(r, ok)
    \/ \E r \in Rids, ok \in BOOLEAN : PanicLoggerDone(r, ok)

SpecConc == Init /\ [][NextConc]_vars

----------------------------------------------------------------------------
\* Observations on a request's history

IsPost(e) == e.kind = "post"

PostsOf(r) == { i \in DOMAIN hist[r] : IsPost(hist[r][i]) }

PostsBy(r, who) == { i \in PostsOf(r) : hist[r][i].who = who }

PostsUnder(r, tag) == { i \in PostsOf(r) : hist[r][i].tag = tag }

ReturnsOf(r, who) ==
    { i \in DOMAIN hist[r] : hist[r][i].kind = "return" /\ hist[r][i].who = who }

AppReturned(r) == \E i \in DOMAIN hist[r] : hist[r][i].kind = "app_return"

BaseTag == newRes.config.Tag

PanicTag == newRes.config.Tag \o ".panic"

----------------------------------------------------------------------------
\* C1: in both wrappers the value returned is the value c.Next() returned
\* (nil stays nil, an error stays that error), and the response (status, body)
\* is the one the wrapped handler produced, whether or not a record was sent.
C1_OutcomeUnchanged ==
    \A r \in Rids :
        /\ \A i \in DOMAIN hist[r] :
               hist[r][i].kind = "return" => hist[r][i].err = app[r].err
        /\ pc[r] = "done" => ret[r] = app[r].err
        /\ pc[r] \in {"ret", "done"} =>
               /\ ctx[r].status = app[r].status
               /\ ctx[r].body = app[r].body

C1_Witness ==
    \E r \in Rids :
        /\ pc[r] = "done"
        /\ Len(chain) = 2
        /\ ~app[r].err.nil
        /\ ret[r] = app[r].err
        /\ app[r].status = 500
        /\ app[r].body # <<>>
        /\ Cardinality(PostsOf(r)) = 2

\* C2: when Post fails, in either wrapper, the handler still returns the
\* wrapped handler's outcome (never the transmission error), and that wrapper
\* called Post exactly once for the request.
C2_PostFailureSwallowed ==
    \A r \in Rids : \A who \in {"Logger", "PanicLogger"} :
        (\E i \in PostsBy(r, who) : ~hist[r][i].ok) =>
            /\ Cardinality(PostsBy(r, who)) = 1
            /\ Cardinality(ReturnsOf(r, who)) = 1
            /\ \A j \in ReturnsOf(r, who) :
                   /\ hist[r][j].err = app[r].err
                   /\ \A i \in PostsBy(r, who) : i < j
            /\ pc[r] = "done" => ret[r] = app[r].err

C2_Witness ==
    \E r \in Rids :
        /\ pc[r] = "done"
        /\ \E i \in PostsBy(r, "Logger") : ~hist[r][i].ok
        /\ \E i \in PostsBy(r, "PanicLogger") : ~hist[r][i].ok
        /\ app[r].err.nil
        /\ ret[r].nil

C4_PanicRecordIffServerError ==
    \A r \in Rids :
        /\ \A i \in PostsBy(r, "PanicLogger") : hist[r][i].tag = PanicTag
        /\ PostsUnder(r, PanicTag) = PostsBy(r, "PanicLogger")
        /\ ReturnsOf(r, "PanicLogger") = {} => PostsUnder(r, PanicTag) = {}
        /\ ReturnsOf(r, "PanicLogger") # {} =>
               Cardinality(PostsUnder(r, PanicTag)) =
                   IF app[r].status = StatusInternalServerError THEN 1 ELSE 0
        /\ (pc[r] = "done" /\ In(chain, "PanicLogger")) => ReturnsOf(r, "PanicLogger") # {}

C4_Witness ==
    \E r \in Rids :
        /\ pc[r] = "done"
        /\ chain = <<"PanicLogger">>
        /\ app[r].status = StatusInternalServerError
        /\ Cardinality(PostsUnder(r, PanicTag)) = 1
        /\ PostsUnder(r, BaseTag) = {}

\* C5: New with Enabled = FALSE returns a nil logger and the configuration
\* error without calling fluent.New; a logger is returned only when Enabled
\* and the transport was established; exactly one of logger and error is nil.
C5_NewContract ==
    newRes.called =>
        /\ ~newRes.config.Enabled =>
               /\ newRes.logger.nil
               /\ ~newRes.err.nil
               /\ newRes.err.msg = "middleware disabled"
               /\ ~newRes.dialed
        /\ newRes.logger.nil <=> ~newRes.err.nil
        /\ ~newRes.logger.nil =>
               /\ newRes.config.Enabled
               /\ newRes.dialed
               /\ newRes.logger.tag = newRes.config.Tag

C5_Witness ==
    /\ newRes.called
    /\ ~newRes.config.Enabled
    /\ newRes.logger.nil
    /\ ~newRes.err.nil

LoggerKeys == {"method", "path", "status", "latency_ms", "client_ip",
               "user_agent", "response_size"}

\* C6: the record Logger sends carries the seven attributes method, path,
\* status, latency_ms, client_ip, user_agent, response_size, read from the
\* request and the response as the wrapped handler left them, and carries
\* `error` exactly when the wrapped handler returned an error.
C6_LoggerRecord ==
    \A r \in Rids : \A i \in PostsBy(r, "Logger") :
        LET d == hist[r][i].data IN
        /\ DOMAIN d = LoggerKeys \cup (IF app[r].err.nil THEN {} ELSE {"error"})
        /\ d.method = ctx[r].method
        /\ d.path = ctx[r].path
        /\ d.client_ip = ctx[r].ip
        /\ d.user_agent = Get(ctx[r], "User-Agent")
        /\ d.status = app[r].status
        /\ d.response_size = Len(app[r].body)
        /\ d.latency_ms \in 0..Milliseconds(now)
        /\ ~app[r].err.nil => d.error = SprintSource(app[r].err)

C6_Witness ==
    \E r \in Rids : \E i \in PostsBy(r, "Logger") :
        /\ "error" \in DOMAIN hist[r][i].data
        /\ hist[r][i].data.status = 500
        /\ hist[r][i].data.response_size = 2
        /\ hist[r][i].data.latency_ms = 1
        /\ hist[r][i].data.user_agent = ""

PanicKeys == {"method", "path", "client_ip", "user_agent"}

\* C7: every record PanicLogger sends carries method, path, client_ip and
\* user_agent, and carries `error` and `stacktrace` together or not at all:
\* both when the wrapped handler returned an error, neither when it did not.
C7_PanicRecord ==
    \A r \in Rids : \A i \in PostsBy(r, "PanicLogger") :
        LET d == hist[r][i].data IN
        /\ PanicKeys \subseteq DOMAIN d
        /\ DOMAIN d \subseteq PanicKeys \cup {"error", "stacktrace"}
        /\ "error" \in DOMAIN d <=> "stacktrace" \in DOMAIN d
        /\ "error" \in DOMAIN d <=> ~app[r].err.nil
        /\ d.method = ctx[r].method
        /\ d.path = ctx[r].path
        /\ d.client_ip = ctx[r].ip
        /\ d.user_agent = Get(ctx[r], "User-Agent")
        /\ ~app[r].err.nil =>
               /\ d.error = SprintSource(app[r].err)
               /\ d.stacktrace # <<>>

C7_Witness ==
    \E r \in Rids :
        /\ \E i \in PostsBy(r, "PanicLogger") : DOMAIN hist[r][i].data = PanicKeys
        /\ app[r].status = StatusInternalServerError
        /\ app[r].err.nil

\* C8: when the wrapped handler panics instead of returning, PanicLogger sends
\* a record under <tag>.panic for that request.
C8_PanicIsLogged ==
    \A r \in Rids :
        (pc[r] = "panicked" /\ In(chain, "PanicLogger")) => PostsUnder(r, PanicTag) # {}

Before(r, i, kind, who) ==
    \E j \in DOMAIN hist[r] : j < i /\ hist[r][j].kind = kind /\ hist[r][j].who = who

\* C9: with Logger outermost around PanicLogger around the application
\* handler, a request's events are ordered: the application handler returns,
\* then the .panic send (when the status is 500), then PanicLogger returns,
\* then the base-tag send, then Logger returns to the framework; nothing is
\* sent before the application handler finished or after the outermost
\* handler returned.
C9_Ordering ==
    \A r \in Rids :
        /\ \A i \in PostsOf(r) :
               /\ Before(r, i, "app_return", "app")
               /\ ~Before(r, i, "return", chain[1])
        /\ \A i \in DOMAIN hist[r] :
               hist[r][i].kind = "return" => Before(r, i, "app_return", "app")
        /\ chain = <<"Logger", "PanicLogger">> =>
               /\ \A i \in PostsBy(r, "PanicLogger") : \A j \in PostsBy(r, "Logger") : i < j
               /\ \A i \in PostsBy(r, "Logger") :
                      /\ Before(r, i, "return", "PanicLogger")
                      /\ app[r].status = StatusInternalServerError =>
                             \E j \in PostsUnder(r, PanicTag) : j < i
               /\ \A i \in PostsBy(r, "PanicLogger") :
                      ~Before(r, i, "return", "PanicLogger")
               /\ pc[r] = "done" =>
                      /\ hist[r][Len(hist[r])].kind = "return"
                      /\ hist[r][Len(hist[r])].who = "Logger"
                      /\ PostsBy(r, "Logger") # {}

C9_Witness ==
    \E r \in Rids :
        /\ chain = <<"Logger", "PanicLogger">>
        /\ pc[r] = "done"
        /\ app[r].status = StatusInternalServerError
        /\ PostsBy(r, "PanicLogger") # {}
        /\ PostsBy(r, "Logger") # {}

\* C10: with several requests in flight through handlers built from one
\* Logger, under every interleaving each record holds the attributes of the
\* request that produced it and of no other, the base-tag records are as many
\* as the requests whose wrapped handler returned (one each, once all requests
\* are over), and the logger's tag and client stay what New set, so every
\* record goes under the configured tag or that tag followed by .panic.
C10_RequestsIndependent ==
    /\ ~l.nil => (l.tag = newRes.config.Tag /\ l.client = "fluent")
    /\ \A r \in Rids : \A i \in PostsOf(r) :
           LET e == hist[r][i] IN
           /\ e.tag \in {BaseTag, PanicTag}
           /\ e.data.method = ctx[r].method
           /\ e.data.path = ctx[r].path
           /\ e.data.client_ip = ctx[r].ip
           /\ e.data.user_agent = Get(ctx[r], "User-Agent")
           /\ "status" \in DOMAIN e.data => e.data.status = app[r].status
           /\ "error" \in DOMAIN e.data <=> ~app[r].err.nil
           /\ "error" \in DOMAIN e.data => e.data.error = SprintSource(app[r].err)
    /\ \A r \in Rids :
           /\ Cardinality(PostsUnder(r, BaseTag)) <= 1
           /\ PostsUnder(r, BaseTag) # {} => AppReturned(r)
    /\ (In(chain, "Logger") /\ \A r \in Rids : pc[r] \in {"done", "panicked"}) =>
           Cardinality({ r \in Rids : PostsUnder(r, BaseTag) # {} })
               = Cardinality({ r \in Rids : AppReturned(r) })

C10_Witness ==
    /\ MaxRequests >= 2
    /\ pc[1] = "ret"
    /\ pc[2] = "done"
    /\ ctx[1].method # ctx[2].method
    /\ app[1].status # app[2].status
    /\ PostsUnder(2, BaseTag) # {}
    /\ PostsUnder(2, PanicTag) # {}

====
